---- MODULE Spec2Model ----
(***************************************************************************)
(* Two processes running pychess/main.py: the NetPlay transport (accept    *)
(* and receive threads, send, poll, close), color_select_screen and the    *)
(* main_game tick loop (network receive, clocks, input events).            *)
(*                                                                         *)
(* The rules engine (python-chess) is an external collaborator; it is      *)
(* modelled by a small two-player take-away game with the same interface:  *)
(* side to move, legal moves, push, checkmate, stalemate, uci notation.    *)
(* Clock values and tick durations are integers.                           *)
(***************************************************************************)
EXTENDS Integers, Sequences, FiniteSets, TLC

\* ---------------------------------------------------------------- bounds
\* initial clock value of both sides (splash_screen returns minutes * 60)
InitTime == 2
\* largest wall-clock delta between two ticks
MaxDt == 1
\* size of the pile of the stand-in board game
Total == 5

\* NetPlay under an arbitrary client: events a client lets pile up in an inbox
\* or on the wire before it stops sending
MaxQueue == 1
\* NetPlay under an arbitrary client: 'closed' events after which it stops
\* sending
MaxClosedEv == 1

\* NetPlay._recv on any stream: longest sequence of records on the wire
MaxLen == 3

\* a session facing any peer: longest sequence of records the peer writes
MaxIn == 2

\* ------------------------------------------------------------- constants
Peers == {"host", "join"}
Colors == {"white", "black"}
Other(p) == IF p = "host" THEN "join" ELSE "host"
Flip(c) == IF c = "white" THEN "black" ELSE "white"

\* ------------------------------------------------- rules engine stand-in
Takes == {2, 3}
AllMoves == [side : Colors, k : Takes]
NoMove == [side |-> "none", k |-> 0]
InitBoard == [pile |-> 0, turn |-> "white"]
NoBoard == [pile |-> 0 - 1, turn |-> "none"]

LegalMoves(b) == {m \in AllMoves : m.side = b.turn /\ b.pile + m.k <= Total}
Push(b, m) == [pile |-> b.pile + m.k, turn |-> Flip(b.turn)]
IsCheckmate(b) == LegalMoves(b) = {} /\ b.pile = Total
IsStalemate(b) == LegalMoves(b) = {} /\ b.pile < Total

\* move.uci() and chess.Move.from_uci(): the notation is a number,
\* tens digit for the side that owns the moved piece, units for the take
MoveUci(m) == (IF m.side = "white" THEN 10 ELSE 20) + m.k
FromUci(u) == [side |-> IF u \div 10 = 1 THEN "white" ELSE "black", k |-> u % 10]

Max0(x) == IF x < 0 THEN 0 ELSE x

\* ---------------------------------------------------------------- events
\* inbox entries ('connected', info) | ('msg', d) | ('closed', None) and wire
\* records share one record shape; pos is a history field (the sender's
\* position right after the move), never read by the receiver's code
Rec(kind, type, color, uci, wt, bt, pos) ==
    [kind |-> kind, type |-> type, color |-> color, uci |-> uci,
     wtime |-> wt, btime |-> bt, pos |-> pos]
EvConnected == Rec("connected", "none", "none", 0, 0, 0, NoBoard)
EvClosed == Rec("closed", "none", "none", 0, 0, 0, NoBoard)
NoEv == Rec("none", "none", "none", 0, 0, 0, NoBoard)
\* a delimited record that is not valid JSON
BadRec == Rec("bad", "none", "none", 0, 0, 0, NoBoard)
ChooseMsg(c) == Rec("msg", "choose", c, 0, 0, 0, NoBoard)
\* (mutant) the relayed notation names another move than the one pushed
MoveMsgOtherTake(m, wt, bt, pos) ==
    Rec("msg", "move", "none", MoveUci([m EXCEPT !.k = 5 - m.k]), Max0(wt), Max0(bt), pos)
MoveMsg(m, wt, bt, pos) == Rec("msg", "move", "none", MoveUci(m), Max0(wt), Max0(bt), pos)

\* decoded objects that are no protocol message: field values a peer can put
\* on the wire that the protocol's own senders never produce
\*   payload has no 'uci' key / 'uci' is text from_uci() cannot parse
UciMissing == 0
UciGarbled == 99
\*   'wtime' or 'btime' is text float() cannot convert
NotANumber == 0 - 1
\*   'color' names no side ('color' missing is the color "none")
BadColor == "green"
\* chess.Move.from_uci(u) returns a move
Parses(u) == u \in {MoveUci(m) : m \in AllMoves}

VARIABLES
    \* configuration
    mode,           \* net_cfg['mode'] of each process: host, join, solo, off
    \* NetPlay
    q,              \* self.q, the inbox
    alive,          \* self.alive
    sock,           \* self.sock: none, open, closed
    listener,       \* self.listener: none, listening, closed
    acceptT,        \* the _accept thread: none, running, accepted, done
    recvT,          \* the _recv thread: none, running, done
    wire,           \* records written by the peer and not yet read by _recv
    \* session (main_game / color_select_screen locals)
    pc,             \* position of the foreground loop
    net,            \* main_game's net is not None
    connected,      \* host waiting loop flag
    local_choice, remote_choice, sent,
    local_color,
    board, white_time, black_time, white_to_move, game_over, peer_left, last_move,
    \* history
    nClosed,        \* number of 'closed' events ever enqueued in q
    lateEv,         \* an event was enqueued after a 'closed' event
    blind,          \* the peer announced while it had no remote_choice
    flips,          \* number of times a collision turned local_choice to the other side
    rejected,       \* some relayed move was rejected as illegal
    eosPlaying,     \* _recv ended while the session was in Playing
    pending,        \* events in the inbox at tick start not yet polled
    dropped,        \* a read dropped a malformed record that came right before a valid one
    closes,         \* calls of net.close() made by the session since it opened the channel
    charged,        \* solo: per side, the tick time that passed in Playing while the
                    \* board had that side to move
    announced,      \* the side p announced to the peer
    last            \* the step each foreground loop took last

tvars == <<q, alive, sock, listener, acceptT, recvT, wire>>
cvars == <<local_choice, remote_choice, sent, local_color>>
gvars == <<board, white_time, black_time, white_to_move, game_over, peer_left, last_move>>
hvars == <<nClosed, lateEv, blind, flips, rejected, eosPlaying, pending, dropped, closes, charged, announced>>
vars == <<mode, tvars, pc, net, connected, cvars, gvars, hvars, last>>

\* the game state of p, as recorded in last
Game(p) ==
    [board |-> board[p], white_time |-> white_time[p], black_time |-> black_time[p],
     white_to_move |-> white_to_move[p], game_over |-> game_over[p],
     peer_left |-> peer_left[p], last_move |-> last_move[p]]
NoGame ==
    [board |-> NoBoard, white_time |-> 0, black_time |-> 0, white_to_move |-> TRUE,
     game_over |-> FALSE, peer_left |-> FALSE, last_move |-> NoMove]
\* a foreground step: the operation, the game state before it, the event polled
\* or the message sent, the outcome (of send; the value main_game returns
\* when the channel could not be opened; the line printed by the clocks
\* block; whether color_select_screen had both choices when it aborted), and (clocks, local_move) whether this tick's receive loop polled
\* an event
Step(p, op, pre, ev, out, tick) ==
    [p |-> p, op |-> op, pre |-> pre, ev |-> ev, out |-> out, tick |-> tick]

\* no tick time charged to either side
NoCharge == [white |-> 0, black |-> 0]

\* ------------------------------------------------------------------ Init
InitMode == {[host |-> "host", join |-> "join"], [host |-> "solo", join |-> "off"]}

Init ==
    /\ mode \in InitMode
    /\ q = [p \in Peers |-> <<>>]
    /\ alive = [p \in Peers |-> FALSE]
    /\ sock = [p \in Peers |-> "none"]
    /\ listener = [p \in Peers |-> "none"]
    /\ acceptT = [p \in Peers |-> "none"]
    /\ recvT = [p \in Peers |-> "none"]
    /\ wire = [p \in Peers |-> <<>>]
    /\ pc = [p \in Peers |-> IF mode[p] = "off" THEN "off" ELSE "start"]
    /\ net = [p \in Peers |-> FALSE]
    /\ connected = [p \in Peers |-> FALSE]
    /\ local_choice = [p \in Peers |-> "none"]
    /\ remote_choice = [p \in Peers |-> "none"]
    /\ sent = [p \in Peers |-> FALSE]
    /\ local_color = [p \in Peers |-> "none"]
    /\ board = [p \in Peers |-> InitBoard]
    /\ white_time = [p \in Peers |-> InitTime]
    /\ black_time = [p \in Peers |-> InitTime]
    /\ white_to_move = [p \in Peers |-> TRUE]
    /\ game_over = [p \in Peers |-> FALSE]
    /\ peer_left = [p \in Peers |-> FALSE]
    /\ last_move = [p \in Peers |-> NoMove]
    /\ nClosed = [p \in Peers |-> 0]
    /\ lateEv = [p \in Peers |-> FALSE]
    /\ blind = [p \in Peers |-> FALSE]
    /\ flips = [p \in Peers |-> 0]
    /\ rejected = FALSE
    /\ eosPlaying = [p \in Peers |-> FALSE]
    /\ pending = [p \in Peers |-> 0]
    /\ dropped = [p \in Peers |-> FALSE]
    /\ closes = [p \in Peers |-> 0]
    /\ charged = [p \in Peers |-> NoCharge]
    /\ announced = [p \in Peers |-> "none"]
    /\ last = [p \in Peers |-> Step(p, "init", NoGame, NoEv, "none", "none")]

\* --------------------------------------------------------------- NetPlay
\* self.q.put(e) for each e of es, with the history of 'closed' events
PutAll(p, es) ==
    /\ q' = [q EXCEPT ![p] = @ \o es]
    /\ nClosed' = [nClosed EXCEPT ![p] = @ + Len(SelectSeq(es, LAMBDA e : e.kind = "closed"))]
    /\ lateEv' = [lateEv EXCEPT ![p] = @ \/ (Len(es) > 0 /\ nClosed[p] > 0)
                     \/ (\E i \in 1..Len(es) : \E j \in 1..Len(es) :
                            i < j /\ es[i].kind = "closed")]

\* the peer's end of the connection is closed (its socket, or its listener
\* while the connection still waits in the backlog; a connection that accept()
\* has returned outlives the listener)
PeerGone(p) ==
    LET o == Other(p) IN
    \/ sock[o] = "closed"
    \/ sock[o] = "none" /\ listener[o] = "closed" /\ acceptT[o] # "accepted"

\* NetPlay.close: the values of alive, sock and listener after the call
CloseSock(s) == IF s = "open" THEN "closed" ELSE s
CloseListener(l) == IF l = "listening" THEN "closed" ELSE l
Close(p) ==
    /\ alive' = [alive EXCEPT ![p] = FALSE]
    /\ sock' = [sock EXCEPT ![p] = CloseSock(@)]
    /\ listener' = [listener EXCEPT ![p] = CloseListener(@)]

\* NetPlay.send: what sendall can do with the socket in its current state
\*   noop  no socket yet;  ok  written to the peer;
\*   drop  written to a connection whose peer end is closed;
\*   fail  sendall raised
SendOutcomes(p) ==
    IF sock[p] = "none" THEN {"noop"}
    ELSE IF sock[p] = "closed" THEN {"fail"}
    ELSE IF PeerGone(p) THEN {"drop", "fail"}
    ELSE {"ok"}

\* (mutant) a failed write is swallowed without a 'closed' event
SendFailSilent(p, d, out) ==
    /\ out \in SendOutcomes(p)
    /\ wire' = [wire EXCEPT ![Other(p)] = IF out = "ok" THEN Append(@, d) ELSE @]
    /\ PutAll(p, <<>>)
\* NetPlay.send(d) with outcome out: the wire and the inbox afterwards
Send(p, d, out) ==
    /\ out \in SendOutcomes(p)
    /\ wire' = [wire EXCEPT ![Other(p)] = IF out = "ok" THEN Append(@, d) ELSE @]
    /\ PutAll(p, IF out = "fail" THEN <<EvClosed>> ELSE <<>>)

\* NetPlay._accept, accept() returns a connection
AcceptConn(p) ==
    /\ acceptT[p] = "running"
    /\ listener[p] = "listening"
    /\ sock[Other(p)] # "none"
    /\ acceptT' = [acceptT EXCEPT ![p] = "accepted"]
    /\ UNCHANGED <<last, mode, q, alive, sock, listener, recvT, wire, pc, net, connected,
                   cvars, gvars, hvars>>

\* (mutant) the accepted connection is stored and read without a 'connected'
\* event
AcceptSilent(p) ==
    /\ acceptT[p] = "accepted"
    /\ sock' = [sock EXCEPT ![p] = "open"]
    /\ PutAll(p, <<>>)
    /\ acceptT' = [acceptT EXCEPT ![p] = "done"]
    /\ recvT' = [recvT EXCEPT ![p] = "running"]
    /\ UNCHANGED <<last, mode, alive, listener, wire, pc, net, connected, cvars, gvars,
                   blind, flips, rejected, eosPlaying, dropped, pending, closes, charged, announced>>
\* NetPlay._accept after accept(): store the connection in self.sock, enqueue
\* 'connected' and start _recv (close() may have run in between: it found no
\* socket to close)
Accept(p) ==
    /\ acceptT[p] = "accepted"
    /\ sock' = [sock EXCEPT ![p] = "open"]
    /\ PutAll(p, <<EvConnected>>)
    /\ acceptT' = [acceptT EXCEPT ![p] = "done"]
    /\ recvT' = [recvT EXCEPT ![p] = "running"]
    /\ UNCHANGED <<last, mode, alive, listener, wire, pc, net, connected, cvars, gvars,
                   blind, flips, rejected, eosPlaying, dropped, pending, closes, charged, announced>>

\* NetPlay._accept, accept() raises (the listener was closed under it)
AcceptFail(p) ==
    /\ acceptT[p] = "running"
    /\ listener[p] = "closed"
    /\ PutAll(p, <<EvClosed>>)
    /\ acceptT' = [acceptT EXCEPT ![p] = "done"]
    /\ UNCHANGED <<last, mode, alive, sock, listener, recvT, wire, pc, net, connected, cvars,
                   gvars, blind, flips, rejected, eosPlaying, dropped, pending, closes, charged, announced>>

\* NetPlay._accept, accept() raises on a listener that is still open (an
\* error of the operating system): 'closed' is enqueued and the thread ends,
\* no connection will be accepted
AcceptError(p) ==
    /\ acceptT[p] = "running"
    /\ listener[p] = "listening"
    /\ PutAll(p, <<EvClosed>>)
    /\ acceptT' = [acceptT EXCEPT ![p] = "done"]
    /\ UNCHANGED <<last, mode, alive, sock, listener, recvT, wire, pc, net, connected, cvars,
                   gvars, blind, flips, rejected, eosPlaying, dropped, pending, closes, charged, announced>>

InPlaying(p) == pc[p] \in {"drain", "events"} /\ ~game_over[p] /\ ~peer_left[p]

\* the first n elements of s, and the rest
Take(s, n) == SubSeq(s, 1, n)
Drop(s, n) == SubSeq(s, n + 1, Len(s))

\* (mutant) the first record that fails to decode ends the processing of
\* the read
DecodedUntilBad(s) ==
    IF \E i \in 1..Len(s) : s[i].kind = "bad"
    THEN SubSeq(s, 1, (CHOOSE i \in 1..Len(s) : s[i].kind = "bad" /\ \A j \in 1..(i - 1) : s[j].kind # "bad") - 1)
    ELSE s
\* the records of one read that json.loads decodes, in order; the others
\* raise inside the try and are passed over
Decoded(s) == SelectSeq(s, LAMBDA r : r.kind # "bad")
\* s holds a malformed record immediately followed by a valid one
BadThenGood(s) == \E i \in 1..(Len(s) - 1) : s[i].kind = "bad" /\ s[i + 1].kind # "bad"

\* NetPlay._recv, one recv() that returns n whole records: each is enqueued;
\* then the loop condition: with alive false the thread leaves through finally
\* (a thread started with alive false never calls recv)
RecvData(p) ==
    /\ recvT[p] = "running"
    /\ alive[p] \/ sock[p] = "closed"
    /\ \E n \in 1..Len(wire[p]) :
        /\ wire' = [wire EXCEPT ![p] = Drop(@, n)]
        /\ PutAll(p, Decoded(Take(wire[p], n)) \o (IF alive[p] THEN <<>> ELSE <<EvClosed>>))
        /\ dropped' = [dropped EXCEPT ![p] = @ \/ BadThenGood(Take(wire[p], n))]
    /\ recvT' = [recvT EXCEPT ![p] = IF alive[p] THEN "running" ELSE "done"]
    /\ eosPlaying' = [eosPlaying EXCEPT ![p] = @ \/ (~alive[p] /\ InPlaying(p))]
    /\ UNCHANGED <<last, mode, alive, sock, listener, acceptT, pc, net, connected, cvars,
                   gvars, blind, flips, rejected, pending, closes, charged, announced>>

\* NetPlay._recv, recv() returns no data (end of stream) or raises (reset by
\* the peer, or the own socket closed under it), or the thread starts with
\* alive already false: finally enqueues 'closed'
RecvEnd(p) ==
    /\ recvT[p] = "running"
    /\ \/ PeerGone(p) /\ wire[p] = <<>>
       \/ sock[p] = "closed"
       \/ ~alive[p]
    /\ PutAll(p, <<EvClosed>>)
    /\ recvT' = [recvT EXCEPT ![p] = "done"]
    /\ eosPlaying' = [eosPlaying EXCEPT ![p] = @ \/ InPlaying(p)]
    /\ UNCHANGED <<last, mode, alive, sock, listener, acceptT, wire, pc, net, connected,
                   cvars, gvars, blind, flips, rejected, pending, dropped, closes, charged, announced>>

\* ------------------------------------------------- main_game, connection
\* poll() taking the head of a non-empty inbox
PopQ(p) ==
    /\ q' = [q EXCEPT ![p] = Tail(@)]
    /\ UNCHANGED <<nClosed, lateEv>>
NoPut == UNCHANGED <<q, nClosed, lateEv>>
NoClose == UNCHANGED <<alive, sock, listener, closes>>
\* "if net: net.close()"
\* net.close() called by main_game or color_select_screen
SessionClose(p) == Close(p) /\ closes' = [closes EXCEPT ![p] = @ + 1]
CloseIfNet(p) == IF net[p] THEN SessionClose(p) ELSE NoClose

\* the locals of main_game as set before the tick loop
FreshGame ==
    [board |-> InitBoard, white_time |-> InitTime, black_time |-> InitTime,
     white_to_move |-> TRUE, game_over |-> FALSE, peer_left |-> FALSE,
     last_move |-> NoMove]

SetGame(p, g) ==
    /\ board' = [board EXCEPT ![p] = g.board]
    /\ white_time' = [white_time EXCEPT ![p] = g.white_time]
    /\ black_time' = [black_time EXCEPT ![p] = g.black_time]
    /\ white_to_move' = [white_to_move EXCEPT ![p] = g.white_to_move]
    /\ game_over' = [game_over EXCEPT ![p] = g.game_over]
    /\ peer_left' = [peer_left EXCEPT ![p] = g.peer_left]
    /\ last_move' = [last_move EXCEPT ![p] = g.last_move]

\* main_game returns (or the process exits): its locals are gone, and the
\* history of its color negotiation with them
Leave(p) ==
    /\ SetGame(p, FreshGame)
    /\ net' = [net EXCEPT ![p] = FALSE]
    /\ connected' = [connected EXCEPT ![p] = FALSE]
    /\ local_choice' = [local_choice EXCEPT ![p] = "none"]
    /\ remote_choice' = [remote_choice EXCEPT ![p] = "none"]
    /\ sent' = [sent EXCEPT ![p] = FALSE]
    /\ local_color' = [local_color EXCEPT ![p] = "none"]
    /\ pending' = [pending EXCEPT ![p] = 0]
    /\ blind' = [blind EXCEPT ![p] = FALSE]
    /\ flips' = [flips EXCEPT ![p] = 0]
    /\ charged' = [charged EXCEPT ![p] = NoCharge]
    /\ announced' = [announced EXCEPT ![p] = "none"]

\* (mutant) the constructor starts its thread before it opens the socket
StartedAnyway(ok, t) == "running"
\* the thread the constructor starts as its last statement: not reached when
\* bind, listen or connect raised
Started(ok, t) == IF ok THEN "running" ELSE t

\* main_game, mode host: NetPlay('host') binds, listens and starts _accept;
\* a bind or listen error is caught and main_game returns "exit"
HostOpen(p) ==
    /\ pc[p] = "start" /\ mode[p] = "host"
    /\ \E ok \in BOOLEAN :
        /\ listener' = [listener EXCEPT ![p] = IF ok THEN "listening" ELSE @]
        /\ acceptT' = [acceptT EXCEPT ![p] = Started(ok, @)]
        /\ alive' = [alive EXCEPT ![p] = ok]
        /\ net' = [net EXCEPT ![p] = ok]
        /\ pc' = [pc EXCEPT ![p] = IF ok THEN "waiting" ELSE "ret"]
        /\ last' = [last EXCEPT ![p] = Step(p, IF ok THEN "host_open" ELSE "leave", NoGame, NoEv, IF ok THEN "none" ELSE "exit", "none")]
    /\ closes' = [closes EXCEPT ![p] = 0]
    /\ NoPut
    /\ UNCHANGED <<mode, sock, recvT, wire, connected, cvars, gvars,
                   blind, flips, rejected, eosPlaying, dropped, pending, charged, announced>>

\* main_game, mode join: NetPlay('join') connects within the timeout and
\* starts _recv; a connect error is caught and main_game returns "exit"
JoinOpen(p) ==
    /\ pc[p] = "start" /\ mode[p] = "join"
    /\ \E ok \in BOOLEAN :
        /\ ok => listener[Other(p)] = "listening"
        /\ sock' = [sock EXCEPT ![p] = IF ok THEN "open" ELSE @]
        /\ recvT' = [recvT EXCEPT ![p] = Started(ok, @)]
        /\ alive' = [alive EXCEPT ![p] = ok]
        /\ net' = [net EXCEPT ![p] = ok]
        /\ pc' = [pc EXCEPT ![p] = IF ok THEN "cs_drain" ELSE "ret"]
        /\ last' = [last EXCEPT ![p] = Step(p, IF ok THEN "join_open" ELSE "leave", NoGame, NoEv, IF ok THEN "none" ELSE "exit", "none")]
    /\ closes' = [closes EXCEPT ![p] = 0]
    /\ NoPut
    /\ UNCHANGED <<mode, listener, acceptT, wire, connected, cvars, gvars,
                   blind, flips, rejected, eosPlaying, dropped, pending, charged, announced>>

\* main_game, mode solo: no channel, straight to the tick loop
SoloStart(p) ==
    /\ pc[p] = "start" /\ mode[p] = "solo"
    /\ pc' = [pc EXCEPT ![p] = "drain"]
    /\ last' = [last EXCEPT ![p] = Step(p, "solo_start", NoGame, NoEv, "none", "none")]
    /\ UNCHANGED <<mode, tvars, net, connected, cvars, gvars, hvars>>

\* (mutant) any polled event ends the waiting loop
EndsWaitAny(evt) == evt.kind # "none"
\* "if evt and evt[0] == 'connected'"
EndsWait(evt) == evt.kind = "connected"

\* host waiting loop, "evt = net.poll()": one event per frame, 'connected'
\* ends the loop after this frame's input events
HostWaitPoll(p) ==
    /\ pc[p] = "waiting"
    /\ LET evt == IF q[p] = <<>> THEN NoEv ELSE Head(q[p]) IN
        /\ IF q[p] = <<>> THEN NoPut ELSE PopQ(p)
        /\ connected' = [connected EXCEPT ![p] = @ \/ EndsWait(evt)]
        /\ last' = [last EXCEPT ![p] = Step(p, "wait_poll", NoGame, evt, "none", "none")]
    /\ pc' = [pc EXCEPT ![p] = "wait_ev"]
    /\ UNCHANGED <<mode, alive, sock, listener, acceptT, recvT, wire, net, cvars, gvars,
                   blind, flips, rejected, eosPlaying, dropped, pending, closes, charged, announced>>

\* host waiting loop, click on Cancel: close and return "exit"
HostWaitCancel(p) ==
    /\ pc[p] = "wait_ev"
    /\ CloseIfNet(p)
    /\ Leave(p)
    /\ pc' = [pc EXCEPT ![p] = "ret"]
    /\ last' = [last EXCEPT ![p] = Step(p, "leave", NoGame, NoEv, "none", "none")]
    /\ NoPut
    /\ UNCHANGED <<mode, acceptT, recvT, wire, rejected, eosPlaying, dropped>>

\* host waiting loop, end of the frame: "while not connected"
HostWaitEnd(p) ==
    /\ pc[p] = "wait_ev"
    /\ pc' = [pc EXCEPT ![p] = IF connected[p] THEN "cs_drain" ELSE "waiting"]
    /\ last' = [last EXCEPT ![p] = Step(p, "wait_end", NoGame, NoEv, "none", "none")]
    /\ UNCHANGED <<mode, tvars, net, connected, cvars, gvars, hvars>>

\* pygame.QUIT in any of the three loops: close the channel and sys.exit();
\* the daemon threads end with the process
Dead(t) == IF t \in {"running", "accepted"} THEN "dead" ELSE t
Quit(p) ==
    /\ pc[p] \in {"wait_ev", "cs_events", "events"}
    /\ CloseIfNet(p)
    /\ Leave(p)
    /\ acceptT' = [acceptT EXCEPT ![p] = Dead(@)]
    /\ recvT' = [recvT EXCEPT ![p] = Dead(@)]
    /\ q' = [q EXCEPT ![p] = <<>>]
    /\ wire' = [wire EXCEPT ![p] = <<>>]
    /\ pc' = [pc EXCEPT ![p] = "quit"]
    /\ last' = [last EXCEPT ![p] = Step(p, "leave", NoGame, NoEv, "none", "none")]
    /\ UNCHANGED <<mode, nClosed, lateEv, rejected, eosPlaying, dropped>>

\* --------------------------------------------------- color_select_screen
\* (mutant) 'closed' is handled like any other event in the "safe poll" loop
CsSeesClosedNever(p) == FALSE
\* the next poll() of the "safe poll" loop returns 'closed'
CsSeesClosed(p) == IF q[p] = <<>> THEN FALSE ELSE Head(q[p]).kind = "closed"

\* both choices are recorded: the completion check would return a side
CsComplete(p) == local_choice[p] # "none" /\ remote_choice[p] # "none"

\* (mutant) a polled announcement flips the local choice whatever it names
CollidesAny(p, evt) ==
    evt.kind = "msg" /\ evt.type = "choose" /\ local_choice[p] # "none"
\* (mutant) a polled announcement never flips the local choice
CollidesNever(p, evt) == FALSE
\* "if local_choice and remote_choice == local_choice" for a polled 'choose'
Collides(p, evt) ==
    evt.kind = "msg" /\ evt.type = "choose" /\ local_choice[p] # "none"
        /\ evt.color = local_choice[p]

\* the "safe poll" loop, one poll(): a peer 'choose' is recorded and a
\* collision flips the local choice; any other message is dropped; an empty
\* inbox ends the loop
CsPoll(p) ==
    /\ pc[p] = "cs_drain"
    /\ ~CsSeesClosed(p)
    /\ LET evt == IF q[p] = <<>> THEN NoEv ELSE Head(q[p])
           choose == evt.kind = "msg" /\ evt.type = "choose"
           collide == Collides(p, evt)
       IN
        /\ IF q[p] = <<>> THEN NoPut ELSE PopQ(p)
        /\ remote_choice' = [remote_choice EXCEPT ![p] = IF choose THEN evt.color ELSE @]
        /\ local_choice' = [local_choice EXCEPT ![p] = IF collide THEN Flip(@) ELSE @]
        /\ flips' = [flips EXCEPT ![p] = IF collide THEN @ + 1 ELSE @]
        /\ pc' = [pc EXCEPT ![p] = IF evt.kind = "none" THEN "cs_events" ELSE "cs_drain"]
        /\ last' = [last EXCEPT ![p] = Step(p, "cs_poll", NoGame, evt, "none", "none")]
    /\ UNCHANGED <<mode, alive, sock, listener, acceptT, recvT, wire, net, connected, sent,
                   local_color, gvars, blind, rejected, eosPlaying, dropped, pending, closes, charged, announced>>

\* the "safe poll" loop polls 'closed': close the channel and return None,
\* and main_game returns "exit"
CsClosed(p) ==
    /\ pc[p] = "cs_drain"
    /\ CsSeesClosed(p)
    /\ PopQ(p)
    /\ CloseIfNet(p)
    /\ Leave(p)
    /\ pc' = [pc EXCEPT ![p] = "ret"]
    /\ last' = [last EXCEPT ![p] = Step(p, "leave", NoGame, EvClosed, IF CsComplete(p) THEN "complete" ELSE "none", "none")]
    /\ UNCHANGED <<mode, acceptT, recvT, wire, rejected, eosPlaying, dropped>>

\* (mutant) the click ignores the peer's recorded choice
PickedAsDesired(p, desired) == desired
\* local_choice after a click on "Play White" / "Play Black"
Picked(p, desired) == IF remote_choice[p] = desired THEN Flip(desired) ELSE desired

\* (mutant) every pick is announced
AnnouncesAlways(p) == net[p]
\* "if net and not sent": the pick is announced
Announces(p) == net[p] /\ ~sent[p]

\* click on a side button: record the choice and announce it once
CsPick(p, desired) ==
    /\ pc[p] = "cs_events"
    /\ local_choice' = [local_choice EXCEPT ![p] = Picked(p, desired)]
    /\ IF Announces(p)
       THEN /\ \E out \in SendOutcomes(p) :
                /\ Send(p, ChooseMsg(Picked(p, desired)), out)
                /\ last' = [last EXCEPT ![p] = Step(p, "cs_pick", NoGame, ChooseMsg(Picked(p, desired)), out, "none")]
            /\ sent' = [sent EXCEPT ![p] = TRUE]
            /\ blind' = [blind EXCEPT ![p] = remote_choice[p] = "none"]
       ELSE /\ NoPut
            /\ last' = [last EXCEPT ![p] = Step(p, "cs_pick", NoGame, NoEv, "unsent", "none")]
            /\ UNCHANGED <<wire, sent, blind>>
    /\ announced' = [announced EXCEPT ![p] = IF Announces(p) THEN Picked(p, desired) ELSE @]
    /\ flips' = [flips EXCEPT ![p] = IF remote_choice[p] = desired /\ local_choice[p] # Flip(desired)
                                     THEN @ + 1 ELSE @]
    /\ UNCHANGED <<mode, alive, sock, listener, acceptT, recvT, pc, net, connected,
                   remote_choice, local_color, gvars, rejected, eosPlaying, dropped, pending, closes, charged>>

\* click on Cancel: close the channel and return None
CsCancel(p) ==
    /\ pc[p] = "cs_events"
    /\ CloseIfNet(p)
    /\ Leave(p)
    /\ pc' = [pc EXCEPT ![p] = "ret"]
    /\ last' = [last EXCEPT ![p] = Step(p, "leave", NoGame, NoEv, "none", "none")]
    /\ NoPut
    /\ UNCHANGED <<mode, acceptT, recvT, wire, rejected, eosPlaying, dropped>>

\* (mutant) the final check flips although the choices differ
ResolvedAlwaysFlip(p) == Flip(local_choice[p])
\* the side color_select_screen returns once both choices are recorded
Resolved(p) == IF local_choice[p] = remote_choice[p] THEN Flip(local_choice[p])
               ELSE local_choice[p]

\* end of the frame: with both choices recorded return the local one (main_game
\* then sets local_color and the fresh game state and enters the tick loop),
\* else the next frame
CsEnd(p) ==
    /\ pc[p] = "cs_events"
    /\ LET both == CsComplete(p)
           final == both /\ local_choice[p] = remote_choice[p] IN
        /\ local_choice' = [local_choice EXCEPT ![p] = IF both THEN Resolved(p) ELSE @]
        /\ flips' = [flips EXCEPT ![p] = IF final THEN @ + 1 ELSE @]
        /\ local_color' = [local_color EXCEPT ![p] = IF both THEN Resolved(p) ELSE @]
        /\ pc' = [pc EXCEPT ![p] = IF both THEN "drain" ELSE "cs_drain"]
        /\ pending' = [pending EXCEPT ![p] = IF both THEN Len(q[p]) ELSE @]
        /\ last' = [last EXCEPT ![p] = Step(p, "cs_end", NoGame, NoEv, "none", "none")]
    /\ UNCHANGED <<mode, tvars, net, connected, remote_choice, sent, gvars,
                   nClosed, lateEv, blind, rejected, eosPlaying, dropped, closes, charged, announced>>

\* --------------------------------------------------- main_game, tick loop
\* network receive is entered: "if net and not peer_left"
Polling(p) == net[p] /\ ~peer_left[p]

\* (mutant) the receive loop is left while events are still in the inbox
DrainOverAlways(p) == TRUE
\* the network receive loop is over (or skipped): poll() returned None, or
\* there is no live channel
DrainOver(p) == ~(Polling(p) /\ q[p] # <<>>)

\* (mutant) a received move is applied but the local clocks are kept
ApplyRemoteKeepClocks(g, evt) ==
    LET m == FromUci(evt.uci)
        b == Push(g.board, m) IN
    [g EXCEPT !.board = b, !.white_to_move = (b.turn = "white"), !.last_move = m,
              !.game_over = (g.game_over \/ IsCheckmate(b) \/ IsStalemate(b))]
\* a received move that is in board.legal_moves: the game state afterwards
ApplyRemote(g, evt) ==
    LET m == FromUci(evt.uci)
        b == Push(g.board, m) IN
    [board |-> b, white_time |-> evt.wtime, black_time |-> evt.btime,
     white_to_move |-> (b.turn = "white"),
     game_over |-> (g.game_over \/ IsCheckmate(b) \/ IsStalemate(b)),
     peer_left |-> g.peer_left, last_move |-> m]

\* (mutant) a received move is applied without the legality check
PolledNoCheck(g, evt) ==
    IF evt.kind = "msg" /\ evt.type = "move" THEN ApplyRemote(g, evt)
    ELSE IF evt.kind = "closed" THEN [g EXCEPT !.peer_left = TRUE]
    ELSE g
\* the game state after polling evt: a legal move is applied, 'closed' sets
\* peer_left, everything else (an illegal move too) leaves it alone
Polled(g, evt) ==
    IF evt.kind = "msg" /\ evt.type = "move"
    THEN IF FromUci(evt.uci) \in LegalMoves(g.board) THEN ApplyRemote(g, evt) ELSE g
    ELSE IF evt.kind = "closed" THEN [g EXCEPT !.peer_left = TRUE]
    ELSE g

\* handling evt in the network receive loop raises: payload['uci'] with no
\* such key (KeyError), from_uci on text that is no move (ValueError), or,
\* after a legal move was pushed, float() on a clock value that is no number
Raises(g, evt) ==
    /\ evt.kind = "msg" /\ evt.type = "move"
    /\ \/ evt.uci = UciMissing
       \/ ~Parses(evt.uci)
       \/ /\ FromUci(evt.uci) \in LegalMoves(g.board)
          /\ NotANumber \in {evt.wtime, evt.btime}

\* the network receive loop, one poll() that returns an event: 'closed'
\* closes the channel and drops it
Poll(p) ==
    /\ pc[p] = "drain"
    /\ ~DrainOver(p)
    /\ Polling(p) /\ q[p] # <<>>
    /\ ~Raises(Game(p), Head(q[p]))
    /\ LET evt == Head(q[p])
           isMove == evt.kind = "msg" /\ evt.type = "move"
       IN
        /\ PopQ(p)
        /\ SetGame(p, Polled(Game(p), evt))
        /\ IF evt.kind = "closed" THEN SessionClose(p) ELSE NoClose
        /\ net' = [net EXCEPT ![p] = @ /\ evt.kind # "closed"]
        /\ rejected' = (rejected \/ (isMove /\ FromUci(evt.uci) \notin LegalMoves(board[p])))
        /\ pending' = [pending EXCEPT ![p] = IF @ = 0 THEN 0 ELSE @ - 1]
        /\ last' = [last EXCEPT ![p] = Step(p, "poll", IF isMove THEN Game(p) ELSE NoGame, evt, "none", "none")]
    /\ UNCHANGED <<mode, acceptT, recvT, wire, pc, connected, cvars, blind, flips, eosPlaying, dropped, charged, announced>>

\* the network receive loop, one poll() whose handling raises: nothing in
\* main_game or in the __main__ loop catches the exception, the process ends
\* with a traceback; close() is not called, the sockets go with the process
PollRaise(p) ==
    /\ pc[p] = "drain"
    /\ Polling(p) /\ q[p] # <<>>
    /\ Raises(Game(p), Head(q[p]))
    /\ sock' = [sock EXCEPT ![p] = CloseSock(@)]
    /\ listener' = [listener EXCEPT ![p] = CloseListener(@)]
    /\ Leave(p)
    /\ acceptT' = [acceptT EXCEPT ![p] = Dead(@)]
    /\ recvT' = [recvT EXCEPT ![p] = Dead(@)]
    /\ q' = [q EXCEPT ![p] = <<>>]
    /\ wire' = [wire EXCEPT ![p] = <<>>]
    /\ pc' = [pc EXCEPT ![p] = "crash"]
    /\ last' = [last EXCEPT ![p] = Step(p, "raise", Game(p), Head(q[p]), "none", "none")]
    /\ UNCHANGED <<mode, alive, nClosed, lateEv, rejected, eosPlaying, dropped, closes>>

\* (mutant) the elapsed time is taken from both clocks
DecayBoth(g, dt) ==
    IF g.game_over \/ g.peer_left THEN g
    ELSE [g EXCEPT !.white_time = @ - dt, !.black_time = @ - dt,
                   !.game_over = (IF g.white_to_move THEN g.white_time - dt <= 0
                                  ELSE g.black_time - dt <= 0)]
\* (mutant) a clock at exactly zero does not end the game
DecayStrict(g, dt) ==
    IF g.game_over \/ g.peer_left THEN g
    ELSE IF g.white_to_move
    THEN [g EXCEPT !.white_time = @ - dt, !.game_over = (g.white_time - dt < 0)]
    ELSE [g EXCEPT !.black_time = @ - dt, !.game_over = (g.black_time - dt < 0)]
\* (mutant) the clocks keep running after the peer has left
DecayAfterLeft(g, dt) ==
    IF g.game_over THEN g
    ELSE IF g.white_to_move
    THEN [g EXCEPT !.white_time = @ - dt, !.game_over = (g.white_time - dt <= 0)]
    ELSE [g EXCEPT !.black_time = @ - dt, !.game_over = (g.black_time - dt <= 0)]
\* (mutant) the elapsed time is taken from the clock of the side that is not
\* to move
DecayOpponent(g, dt) ==
    IF g.game_over \/ g.peer_left THEN g
    ELSE IF g.white_to_move
    THEN [g EXCEPT !.black_time = @ - dt, !.game_over = (g.black_time - dt <= 0)]
    ELSE [g EXCEPT !.white_time = @ - dt, !.game_over = (g.white_time - dt <= 0)]
\* the clocks block with elapsed time dt: the game state afterwards
Decay(g, dt) ==
    IF g.game_over \/ g.peer_left THEN g
    ELSE IF g.white_to_move
    THEN [g EXCEPT !.white_time = @ - dt, !.game_over = (g.white_time - dt <= 0)]
    ELSE [g EXCEPT !.black_time = @ - dt, !.game_over = (g.black_time - dt <= 0)]

\* the line the clocks block prints: who wins on time, if anyone
TimeVerdict(g, dt) ==
    IF g.game_over \/ g.peer_left THEN "none"
    ELSE IF g.white_to_move
    THEN (IF g.white_time - dt <= 0 THEN "black_wins" ELSE "none")
    ELSE (IF g.black_time - dt <= 0 THEN "white_wins" ELSE "none")

\* after the receive loop the clocks block runs with the elapsed time dt of
\* this tick
Clocks(p) ==
    /\ pc[p] = "drain"
    /\ DrainOver(p)
    /\ \E dt \in 0..MaxDt :
        /\ SetGame(p, Decay(Game(p), dt))
        /\ charged' = [charged EXCEPT ![p] =
                          IF mode[p] = "solo" /\ InPlaying(p)
                          THEN [@ EXCEPT ![board[p].turn] = @ + dt] ELSE @]
        /\ last' = [last EXCEPT ![p] = Step(p, "clocks", NoGame, NoEv, TimeVerdict(Game(p), dt), IF last[p].op = "poll" THEN "polled" ELSE "idle")]
    /\ pc' = [pc EXCEPT ![p] = "events"]
    /\ UNCHANGED <<mode, tvars, net, connected, cvars, nClosed, lateEv, blind, flips,
                   rejected, eosPlaying, pending, dropped, closes, announced>>

\* (mutant) board clicks are looked at on either side's turn
MayMoveAnyTurn(p) == ~peer_left[p] /\ ~game_over[p]
\* (mutant) online, board clicks are looked at on the other side's turn
MayMoveOffTurn(p) ==
    /\ ~peer_left[p]
    /\ ~game_over[p]
    /\ local_color[p] # "none" => board[p].turn # local_color[p]
\* a board click is looked at: not peer_left, not game_over, and online only
\* on the local side's turn
MayMove(p) ==
    /\ ~peer_left[p]
    /\ ~game_over[p]
    /\ local_color[p] # "none" => board[p].turn = local_color[p]

\* (mutant) a local move leaves the white_to_move flag as it was
ApplyLocalKeepFlag(g, m) ==
    LET b == Push(g.board, m) IN
    [g EXCEPT !.board = b, !.last_move = m,
              !.game_over = (g.game_over \/ IsCheckmate(b) \/ IsStalemate(b))]
\* the game state after the local move m
ApplyLocal(g, m) ==
    LET b == Push(g.board, m) IN
    [g EXCEPT !.board = b, !.last_move = m, !.white_to_move = ~g.white_to_move,
              !.game_over = (g.game_over \/ IsCheckmate(b) \/ IsStalemate(b))]

\* the two clicks that select a piece of the side to move and one of its
\* legal targets: push the move, relay it with the clock snapshot
LocalMove(p, m) ==
    /\ pc[p] = "events"
    /\ MayMove(p)
    /\ m \in LegalMoves(board[p])
    /\ SetGame(p, ApplyLocal(Game(p), m))
    /\ LET d == MoveMsg(m, white_time[p], black_time[p], Push(board[p], m)) IN
       IF net[p] /\ ~peer_left[p]
       THEN \E out \in SendOutcomes(p) :
                /\ Send(p, d, out)
                /\ last' = [last EXCEPT ![p] = Step(p, "local_move", Game(p), d, out, last[p].tick)]
       ELSE /\ NoPut
            /\ UNCHANGED wire
            /\ last' = [last EXCEPT ![p] = Step(p, "local_move", Game(p), d, "solo", last[p].tick)]
    /\ UNCHANGED <<mode, alive, sock, listener, acceptT, recvT, pc, net, connected, cvars,
                   blind, flips, rejected, eosPlaying, dropped, pending, closes, charged, announced>>

\* (mutant) New Game stays on offer after the peer has left
OffersAlways(p) == {"new", "exit"}
\* the values a click can make main_game return: with peer_left only the
\* "Exit to Menu" / Exit buttons are looked at
Offers(p) == IF peer_left[p] THEN {"exit"} ELSE {"new", "exit"}

\* click on New Game: shutdown("new")
NewGame(p) ==
    /\ pc[p] = "events"
    /\ "new" \in Offers(p)
    /\ CloseIfNet(p)
    /\ Leave(p)
    /\ pc' = [pc EXCEPT ![p] = "ret"]
    /\ last' = [last EXCEPT ![p] = Step(p, "leave", NoGame, NoEv, "none", "none")]
    /\ NoPut
    /\ UNCHANGED <<mode, acceptT, recvT, wire, rejected, eosPlaying, dropped>>

\* click on Exit (or on "Exit to Menu" once the peer has left)
ExitGame(p) ==
    /\ pc[p] = "events"
    /\ "exit" \in Offers(p)
    /\ IF peer_left[p] THEN NoClose ELSE CloseIfNet(p)
    /\ Leave(p)
    /\ pc' = [pc EXCEPT ![p] = "ret"]
    /\ last' = [last EXCEPT ![p] = Step(p, "leave", NoGame, NoEv, "none", "none")]
    /\ NoPut
    /\ UNCHANGED <<mode, acceptT, recvT, wire, rejected, eosPlaying, dropped>>

\* no more input events in this frame: draw, and the next tick starts
EndEvents(p) ==
    /\ pc[p] = "events"
    /\ pc' = [pc EXCEPT ![p] = "drain"]
    /\ pending' = [pending EXCEPT ![p] = IF Polling(p) THEN Len(q[p]) ELSE 0]
    /\ last' = [last EXCEPT ![p] = Step(p, "end_events", NoGame, NoEv, "none", "none")]
    /\ UNCHANGED <<mode, tvars, net, connected, cvars, gvars,
                   nClosed, lateEv, blind, flips, rejected, eosPlaying, dropped, closes, charged, announced>>

\* ------------------------------------------------------------------ Next
Next ==
    \E p \in Peers :
        \/ HostOpen(p) \/ JoinOpen(p) \/ SoloStart(p)
        \/ AcceptConn(p) \/ Accept(p) \/ AcceptFail(p) \/ RecvData(p) \/ RecvEnd(p)
        \/ HostWaitPoll(p) \/ HostWaitCancel(p) \/ HostWaitEnd(p)
        \/ Quit(p)
        \/ CsPoll(p) \/ CsClosed(p) \/ CsCancel(p) \/ CsEnd(p)
        \/ \E c \in Colors : CsPick(p, c)
        \/ Poll(p) \/ Clocks(p)
        \/ \E m \in AllMoves : LocalMove(p, m)
        \/ NewGame(p) \/ ExitGame(p) \/ EndEvents(p)

Spec == Init /\ [][Next]_vars

\* ------------------------------------- NetPlay under an arbitrary client
\* The client constructs the channel as main_game does (HostOpen, JoinOpen)
\* and then calls send, poll and close in any order, any number of times.
\* Each call is recorded in last with a stamp that alternates per call.
Stamp(p) == IF last[p].tick = "a" THEN "b" ELSE "a"

\* the messages the client sends (send does not look into them)
ApiMsgs == {ChooseMsg("white")}

\* net.send(d)
ApiSend(p, d) ==
    /\ net[p]
    /\ Len(q[p]) < MaxQueue /\ nClosed[p] < MaxClosedEv
    /\ Len(wire[Other(p)]) + Len(q[Other(p)]) < MaxQueue
    /\ \E out \in SendOutcomes(p) :
        /\ Send(p, d, out)
        /\ last' = [last EXCEPT ![p] = Step(p, "send", NoGame, d, out, Stamp(p))]
    /\ UNCHANGED <<mode, alive, sock, listener, acceptT, recvT, pc, net, connected, cvars,
                   gvars, blind, flips, rejected, eosPlaying, dropped, pending, closes, charged, announced>>

\* net.poll(): the head of the inbox, or None
ApiPoll(p) ==
    /\ net[p]
    /\ IF q[p] = <<>> THEN NoPut ELSE PopQ(p)
    /\ last' = [last EXCEPT ![p] = Step(p, "poll", NoGame, IF q[p] = <<>> THEN NoEv ELSE Head(q[p]), "none", Stamp(p))]
    /\ UNCHANGED <<mode, alive, sock, listener, acceptT, recvT, wire, pc, net, connected,
                   cvars, gvars, blind, flips, rejected, eosPlaying, dropped, pending, closes, charged, announced>>

\* net.close()
ApiClose(p) ==
    /\ net[p]
    /\ Close(p)
    /\ last' = [last EXCEPT ![p] = Step(p, "close", NoGame, NoEv, "none", Stamp(p))]
    /\ NoPut
    /\ UNCHANGED closes
    /\ UNCHANGED <<mode, acceptT, recvT, wire, pc, net, connected, cvars, gvars,
                   blind, flips, rejected, eosPlaying, dropped, pending, charged, announced>>

InitApi == Init /\ mode["host"] = "host"

NextApi ==
    \E p \in Peers :
        \/ HostOpen(p) \/ JoinOpen(p)
        \/ AcceptConn(p) \/ Accept(p) \/ AcceptFail(p) \/ RecvData(p) \/ RecvEnd(p)
        \/ \E d \in ApiMsgs : ApiSend(p, d)
        \/ ApiPoll(p) \/ ApiClose(p)

SpecApi == InitApi /\ [][NextApi]_vars

\* ------------------------------------------- NetPlay._recv on any stream
\* An established connection on which the joiner's peer has written any
\* sequence of up to MaxLen delimited records, valid or not; the receive
\* threads read them in reads of any size, and either side may close.
Seqs(S, n) == UNION {[1..k -> S] : k \in 0..n}
Records == {ChooseMsg("white"), ChooseMsg("black"), BadRec}

InitRecv ==
    /\ mode = [host |-> "host", join |-> "join"]
    /\ q = [host |-> <<EvConnected>>, join |-> <<>>]
    /\ alive = [p \in Peers |-> TRUE]
    /\ sock = [p \in Peers |-> "open"]
    /\ listener = [host |-> "listening", join |-> "none"]
    /\ acceptT = [host |-> "done", join |-> "none"]
    /\ recvT = [p \in Peers |-> "running"]
    /\ \E w \in Seqs(Records, MaxLen) : wire = [host |-> <<>>, join |-> w]
    /\ pc = [host |-> "waiting", join |-> "cs_drain"]
    /\ net = [p \in Peers |-> TRUE]
    /\ connected = [p \in Peers |-> FALSE]
    /\ local_choice = [p \in Peers |-> "none"]
    /\ remote_choice = [p \in Peers |-> "none"]
    /\ sent = [p \in Peers |-> FALSE]
    /\ local_color = [p \in Peers |-> "none"]
    /\ board = [p \in Peers |-> InitBoard]
    /\ white_time = [p \in Peers |-> InitTime]
    /\ black_time = [p \in Peers |-> InitTime]
    /\ white_to_move = [p \in Peers |-> TRUE]
    /\ game_over = [p \in Peers |-> FALSE]
    /\ peer_left = [p \in Peers |-> FALSE]
    /\ last_move = [p \in Peers |-> NoMove]
    /\ nClosed = [p \in Peers |-> 0]
    /\ lateEv = [p \in Peers |-> FALSE]
    /\ blind = [p \in Peers |-> FALSE]
    /\ flips = [p \in Peers |-> 0]
    /\ rejected = FALSE
    /\ eosPlaying = [p \in Peers |-> FALSE]
    /\ pending = [p \in Peers |-> 0]
    /\ dropped = [p \in Peers |-> FALSE]
    /\ closes = [p \in Peers |-> 0]
    /\ charged = [p \in Peers |-> NoCharge]
    /\ announced = [p \in Peers |-> "none"]
    /\ last = [p \in Peers |-> Step(p, "init", NoGame, NoEv, "none", "none")]

NextRecv == \E p \in Peers : RecvData(p) \/ RecvEnd(p) \/ ApiClose(p)

SpecRecv == InitRecv /\ [][NextRecv]_vars

\* ------------------------------------------ a session facing any peer
\* The joiner's session, connected, from the start of color_select_screen;
\* its peer is any program at the other end of the connection: it has written
\* a sequence of up to MaxIn decodable records, protocol messages or not, and
\* reads nothing.
Subject == "join"
WhiteTwo == [side |-> "white", k |-> 2]
InRecords ==
    {ChooseMsg("white"), ChooseMsg("black"), ChooseMsg("none"), ChooseMsg(BadColor),
     Rec("msg", "ping", "none", 0, 0, 0, NoBoard),
     MoveMsg(WhiteTwo, 1, InitTime, Push(InitBoard, WhiteTwo)),
     Rec("msg", "move", "none", UciMissing, 1, InitTime, NoBoard),
     Rec("msg", "move", "none", UciGarbled, 1, InitTime, NoBoard),
     Rec("msg", "move", "none", MoveUci(WhiteTwo), NotANumber, InitTime, NoBoard)}

InitInbound ==
    /\ mode = [host |-> "off", join |-> "join"]
    /\ q = [p \in Peers |-> <<>>]
    /\ alive = [p \in Peers |-> TRUE]
    /\ sock = [p \in Peers |-> "open"]
    /\ listener = [p \in Peers |-> "none"]
    /\ acceptT = [p \in Peers |-> "none"]
    /\ recvT = [host |-> "none", join |-> "running"]
    /\ \E w \in Seqs(InRecords, MaxIn) : wire = [host |-> <<>>, join |-> w]
    /\ pc = [host |-> "off", join |-> "cs_drain"]
    /\ net = [host |-> FALSE, join |-> TRUE]
    /\ connected = [p \in Peers |-> FALSE]
    /\ local_choice = [p \in Peers |-> "none"]
    /\ remote_choice = [p \in Peers |-> "none"]
    /\ sent = [p \in Peers |-> FALSE]
    /\ local_color = [p \in Peers |-> "none"]
    /\ board = [p \in Peers |-> InitBoard]
    /\ white_time = [p \in Peers |-> InitTime]
    /\ black_time = [p \in Peers |-> InitTime]
    /\ white_to_move = [p \in Peers |-> TRUE]
    /\ game_over = [p \in Peers |-> FALSE]
    /\ peer_left = [p \in Peers |-> FALSE]
    /\ last_move = [p \in Peers |-> NoMove]
    /\ nClosed = [p \in Peers |-> 0]
    /\ lateEv = [p \in Peers |-> FALSE]
    /\ blind = [p \in Peers |-> FALSE]
    /\ flips = [p \in Peers |-> 0]
    /\ rejected = FALSE
    /\ eosPlaying = [p \in Peers |-> FALSE]
    /\ pending = [p \in Peers |-> 0]
    /\ dropped = [p \in Peers |-> FALSE]
    /\ closes = [p \in Peers |-> 0]
    /\ charged = [p \in Peers |-> NoCharge]
    /\ announced = [p \in Peers |-> "none"]
    /\ last = [p \in Peers |-> Step(p, "init", NoGame, NoEv, "none", "none")]

NextInbound ==
    \/ RecvData(Subject)
    \/ CsPoll(Subject) \/ CsEnd(Subject)
    \/ \E c \in Colors : CsPick(Subject, c)
    \/ Poll(Subject) \/ PollRaise(Subject) \/ Clocks(Subject)
    \/ \E m \in AllMoves : LocalMove(Subject, m)
    \/ EndEvents(Subject)

SpecInbound == InitInbound /\ [][NextInbound]_vars

\* ------------------------------- color negotiation, each user picks once
\* Two connected sessions in color_select_screen (the host has polled
\* 'connected'); each user clicks a side button once, at any time; the screens
\* run until they return.
InitCs ==
    /\ mode = [host |-> "host", join |-> "join"]
    /\ q = [p \in Peers |-> <<>>]
    /\ alive = [p \in Peers |-> TRUE]
    /\ sock = [p \in Peers |-> "open"]
    /\ listener = [host |-> "listening", join |-> "none"]
    /\ acceptT = [host |-> "done", join |-> "none"]
    /\ recvT = [p \in Peers |-> "running"]
    /\ wire = [p \in Peers |-> <<>>]
    /\ pc = [p \in Peers |-> "cs_drain"]
    /\ net = [p \in Peers |-> TRUE]
    /\ connected = [host |-> TRUE, join |-> FALSE]
    /\ local_choice = [p \in Peers |-> "none"]
    /\ remote_choice = [p \in Peers |-> "none"]
    /\ sent = [p \in Peers |-> FALSE]
    /\ local_color = [p \in Peers |-> "none"]
    /\ board = [p \in Peers |-> InitBoard]
    /\ white_time = [p \in Peers |-> InitTime]
    /\ black_time = [p \in Peers |-> InitTime]
    /\ white_to_move = [p \in Peers |-> TRUE]
    /\ game_over = [p \in Peers |-> FALSE]
    /\ peer_left = [p \in Peers |-> FALSE]
    /\ last_move = [p \in Peers |-> NoMove]
    /\ nClosed = [p \in Peers |-> 0]
    /\ lateEv = [p \in Peers |-> FALSE]
    /\ blind = [p \in Peers |-> FALSE]
    /\ flips = [p \in Peers |-> 0]
    /\ rejected = FALSE
    /\ eosPlaying = [p \in Peers |-> FALSE]
    /\ pending = [p \in Peers |-> 0]
    /\ dropped = [p \in Peers |-> FALSE]
    /\ closes = [p \in Peers |-> 0]
    /\ charged = [p \in Peers |-> NoCharge]
    /\ announced = [p \in Peers |-> "none"]
    /\ last = [p \in Peers |-> Step(p, "init", NoGame, NoEv, "none", "none")]

\* the user's one click on a side button
CsPickOnce(p, desired) == local_choice[p] = "none" /\ CsPick(p, desired)

NextCs ==
    \E p \in Peers :
        \/ RecvData(p)
        \/ CsPoll(p) \/ CsEnd(p)
        \/ \E c \in Colors : CsPickOnce(p, c)

SpecCs == InitCs /\ [][NextCs]_vars

\* ----------------------------- connecting, with accept() liable to fail
\* Host and joiner from the start of main_game up to the end of color
\* selection, on an operating system whose accept() may raise while the
\* listener is open.
InitWait == Init /\ mode["host"] = "host"

NextWait ==
    \E p \in Peers :
        \/ HostOpen(p) \/ JoinOpen(p)
        \/ AcceptConn(p) \/ Accept(p) \/ AcceptFail(p) \/ AcceptError(p)
        \/ RecvData(p) \/ RecvEnd(p)
        \/ HostWaitPoll(p) \/ HostWaitCancel(p) \/ HostWaitEnd(p)
        \/ Quit(p)
        \/ CsPoll(p) \/ CsClosed(p) \/ CsCancel(p) \/ CsEnd(p)
        \/ \E c \in Colors : CsPick(p, c)

SpecWait == InitWait /\ [][NextWait]_vars

\* ---------------------------------------------------------------- claims
\* both peers announced before receiving the other's announcement
Race == blind["host"] /\ blind["join"]
\* both color_select_screen calls have returned a side
BothAssigned == \A p \in Peers : local_color[p] # "none"

\* C1: over the lifetime of a channel at most one 'closed' event is enqueued
\* in its inbox, and no event of any kind is enqueued after it.
C1_AtMostOneClosed ==
    \A p \in Peers : nClosed[p] <= 1 /\ ~lateEv[p]

\* C2: unless both peers announced before receiving the other's
\* announcement, two peers that both return a side hold distinct sides, and
\* each peer's choice was flipped at most once.
C2_DistinctSides ==
    (BothAssigned /\ ~Race) =>
        /\ local_color["host"] # local_color["join"]
        /\ \A p \in Peers : flips[p] <= 1
\* a negotiation without the race that ended after a collision flip on poll
C2_Witness ==
    /\ BothAssigned /\ ~Race
    /\ \E p \in Peers : flips[p] = 1 /\ blind[p]

PolledMove(p) ==
    last[p].op = "poll" /\ last[p].ev.kind = "msg" /\ last[p].ev.type = "move"
\* ... that was legal / illegal in the position it met
PolledLegal(p) == PolledMove(p) /\ FromUci(last[p].ev.uci) \in LegalMoves(last[p].pre.board)
PolledIllegal(p) == PolledMove(p) /\ FromUci(last[p].ev.uci) \notin LegalMoves(last[p].pre.board)

\* C4: as long as no relayed move was rejected as illegal, the receiver's
\* position right after applying a relayed move equals the sender's position
\* right after that move.
C4_SamePosition ==
    \A p \in Peers : (PolledLegal(p) /\ ~rejected) => board[p] = last[p].ev.pos
\* a reply move (the second move of a game) was relayed and applied
C4_Witness ==
    \E p \in Peers :
        /\ PolledLegal(p) /\ ~rejected
        /\ last[p].pre.board # InitBoard
        /\ board[p] = last[p].ev.pos

\* C5: polling a move message that is legal in the current position applies
\* the move, sets both clocks to the values carried in the message, sets the
\* side to move to the side opposite the mover, and ends the game when the
\* new position is checkmate or stalemate.
C5_RemoteMoveApplied ==
    \A p \in Peers : PolledLegal(p) =>
        LET m == FromUci(last[p].ev.uci) IN
        /\ board[p] = Push(last[p].pre.board, m)
        /\ white_time[p] = last[p].ev.wtime
        /\ black_time[p] = last[p].ev.btime
        /\ board[p].turn = Flip(m.side)
        /\ white_to_move[p] = (board[p].turn = "white")
        /\ (IsCheckmate(board[p]) \/ IsStalemate(board[p])) => game_over[p]
\* a legal move was polled in Playing with clock values that differ from the
\* locally tracked ones, and the message's values are now the local ones
C5_Witness ==
    \E p \in Peers :
        /\ PolledLegal(p)
        /\ ~last[p].pre.game_over
        /\ last[p].ev.wtime # last[p].pre.white_time
        /\ white_time[p] = last[p].ev.wtime
        /\ black_time[p] = last[p].ev.btime

\* the poll() step of p's network receive loop that takes a move message
\* which is not legal on p's board
PollsIllegal(p) ==
    /\ pc[p] = "drain" /\ Polling(p) /\ q[p] # <<>>
    /\ q'[p] = Tail(q[p])
    /\ Head(q[p]).kind = "msg" /\ Head(q[p]).type = "move"
    /\ FromUci(Head(q[p]).uci) \notin LegalMoves(board[p])

\* C6: polling a move message that is not legal in the current position
\* changes neither board, side to move, clocks, last move nor session state,
\* sends nothing, and the session loop keeps running on an open channel.
C6_IllegalMoveDiscarded ==
    [][\A p \in Peers : PollsIllegal(p) =>
          /\ Game(p)' = Game(p)
          /\ wire' = wire
          /\ pc'[p] = "drain" /\ net'[p]
          /\ UNCHANGED <<alive, sock, listener, nClosed>>]_vars
\* an illegal move was polled and dropped by a session in Playing
C6_Witness ==
    \E p \in Peers :
        /\ PolledIllegal(p)
        /\ Game(p) = last[p].pre
        /\ InPlaying(p) /\ net[p]

\* C7: once the session is Ended (game_over), no later event changes the
\* board, the side to move or a clock value.
C7_FrozenOnceEnded ==
    [][\A p \in Peers :
          (game_over[p] /\ pc[p] \in {"drain", "events"} /\ pc'[p] \in {"drain", "events"}) =>
              /\ board'[p] = board[p]
              /\ white_to_move'[p] = white_to_move[p]
              /\ white_time'[p] = white_time[p]
              /\ black_time'[p] = black_time[p]]_vars

\* C8 (state part): when the read task saw end of stream while the session
\* was Playing, exactly one 'closed' event has been enqueued.
C8_OneClosedOnEndOfStream ==
    \A p \in Peers : eosPlaying[p] => nClosed[p] = 1

\* C8 (clock part): from the poll of 'closed' on, no clock value changes.
C8_ClocksFrozenOncePeerLeft ==
    [][\A p \in Peers :
          (pc[p] \in {"drain", "events"} /\ pc'[p] \in {"drain", "events"} /\ peer_left'[p]) =>
              (white_time'[p] = white_time[p] /\ black_time'[p] = black_time[p])]_vars

\* C9: in every tick the receive loop has polled every event that was in the
\* inbox at the start of the tick before the clocks block runs, and the
\* clocks block runs before local input: no local move is applied while an
\* event of the tick's start is still in the inbox.
C9_DrainDecayInput ==
    \A p \in Peers :
        /\ (last[p].op = "clocks" /\ Polling(p)) => (pending[p] = 0 /\ pc[p] = "events")
        /\ last[p].op = "local_move" => (pending[p] = 0 /\ pc[p] = "events")
\* a local move applied in a tick whose receive loop had polled an event
C9_Witness ==
    \E p \in Peers :
        /\ last[p].op = "local_move" /\ last[p].tick = "polled"
        /\ last[p].pre.last_move # NoMove

\* C10: a local move is applied only in Playing (not game over, peer not
\* left) and, in a networked session, only on the local side's turn and for
\* the local side.
C10_LocalMoveGated ==
    \A p \in Peers : last[p].op = "local_move" =>
        /\ ~last[p].pre.game_over /\ ~last[p].pre.peer_left
        /\ mode[p] # "solo" =>
            /\ last[p].pre.board.turn = local_color[p]
            /\ FromUci(last[p].ev.uci).side = local_color[p]
\* a networked peer playing Black applied a local move
C10_Witness ==
    \E p \in Peers :
        /\ last[p].op = "local_move" /\ mode[p] # "solo"
        /\ local_color[p] = "black" /\ last[p].pre.board.turn = "black"

\* the clocks block of p's tick runs in this step
ClocksStep(p) == pc[p] = "drain" /\ pc'[p] = "events"
\* a local move of p is applied in this step
LocalMoveStep(p) == pc[p] = "events" /\ pc'[p] = "events" /\ board'[p] # board[p]

\* C11: the clocks block never decreases the clock of the side not to move
\* (the side to move being the one the board says), never increases a clock,
\* and changes no clock once the session is Ended or PeerLeft.
C11_DecayOnlySideToMove ==
    [][\A p \in Peers : ClocksStep(p) =>
          /\ white_to_move[p] = (board[p].turn = "white")
          /\ white_time'[p] <= white_time[p] /\ black_time'[p] <= black_time[p]
          /\ white_to_move[p] => black_time'[p] = black_time[p]
          /\ ~white_to_move[p] => white_time'[p] = white_time[p]
          /\ (game_over[p] \/ peer_left[p]) =>
                (white_time'[p] = white_time[p] /\ black_time'[p] = black_time[p])]_vars
\* the clocks block has just taken time from Black's clock in a networked
\* game, White's clock still holding the value the last move message carried
C11_Witness ==
    \E p \in Peers :
        /\ last[p].op = "clocks" /\ mode[p] # "solo" /\ InPlaying(p)
        /\ ~white_to_move[p] /\ black_time[p] < InitTime /\ white_time[p] = InitTime

\* C12: when the clocks block brings the clock of the side to move to zero
\* or below, the game is over in that same step and the other side is
\* announced as winner; with the game over no local move is applied.
C12_ClockExpiryEnds ==
    [][\A p \in Peers :
          /\ (ClocksStep(p) /\ ~game_over[p] /\ ~peer_left[p] /\
                 (IF white_to_move[p] THEN white_time'[p] <= 0 ELSE black_time'[p] <= 0)) =>
                (/\ game_over'[p]
                 /\ last'[p].out = (IF white_to_move[p] THEN "black_wins" ELSE "white_wins"))
          /\ game_over[p] => ~LocalMoveStep(p)]_vars
\* Black's clock ran out: game over, White announced as winner, position
\* still has legal moves
C12_Witness ==
    \E p \in Peers :
        /\ last[p].op = "clocks" /\ last[p].out = "white_wins"
        /\ game_over[p] /\ black_time[p] = 0
        /\ LegalMoves(board[p]) # {}

\* p's tick loop is running before and after this step
InSession(p) == pc[p] \in {"drain", "events"} /\ pc'[p] \in {"drain", "events"}

\* C13: once a session is Ended (game over, peer not left) no step of the
\* running tick loop moves it to another session state: it stays game over
\* and a later 'closed' event does not make it PeerLeft.
C13_EndedIsTerminal ==
    [][\A p \in Peers :
          (InSession(p) /\ game_over[p] /\ ~peer_left[p]) =>
              (game_over'[p] /\ ~peer_left'[p])]_vars

\* C14: a session in PeerLeft has its channel closed and dropped and offers
\* only "exit"; while its tick loop runs, board, side to move, clocks,
\* game-over flag and peer_left do not change, nothing is taken from the
\* inbox and nothing is written to the peer; and the tick loop ends only by
\* main_game returning or the process exiting.
C14_PeerLeftFrozen ==
    [][\A p \in Peers : (pc[p] \in {"drain", "events"} /\ peer_left[p]) =>
          /\ ~net[p] /\ ~alive[p] /\ sock[p] # "open" /\ listener[p] # "listening"
          /\ Offers(p) = {"exit"}
          /\ InSession(p) =>
                /\ Game(p)' = Game(p)
                /\ Len(q'[p]) >= Len(q[p])
                /\ Len(wire'[Other(p)]) <= Len(wire[Other(p)])
                /\ UNCHANGED <<alive, sock, listener>>
          /\ ~InSession(p) => pc'[p] \in {"ret", "quit"}]_vars
\* a later tick of a session in PeerLeft, after moves were played, with an
\* event left unpolled in the inbox
C14_Witness ==
    \E p \in Peers :
        /\ peer_left[p] /\ pc[p] = "events"
        /\ last[p].op = "clocks" /\ last[p].tick = "idle"
        /\ board[p] # InitBoard /\ q[p] # <<>>

\* p's color_select_screen polls an event in this step
CsPolls(p) == pc[p] = "cs_drain" /\ q[p] # <<>> /\ q'[p] = Tail(q[p])
\* p's channel is closed
Closed(p) == ~alive[p] /\ sock[p] # "open" /\ listener[p] # "listening"

\* C15: in color_select_screen a polled 'closed' ends the session, and so
\* does Cancel: main_game returns with the channel closed and no side
\* assigned, and a session that returned never reaches the tick loop.
C15_ColorSelectAbort ==
    [][\A p \in Peers :
          /\ (CsPolls(p) /\ Head(q[p]).kind = "closed") => pc'[p] = "ret"
          /\ (pc[p] \in {"cs_drain", "cs_events"} /\ pc'[p] = "ret") =>
                (Closed(p)' /\ local_color'[p] = "none")
          /\ pc[p] = "ret" => (pc'[p] = "ret" /\ local_color'[p] = "none")]_vars
\* 'closed' was polled when both choices were recorded, the peer's
\* announcement having been polled before it: no game started
C15_Witness ==
    \E p \in Peers :
        /\ pc[p] = "ret" /\ last[p].op = "leave"
        /\ last[p].ev.kind = "closed" /\ last[p].out = "complete"
        /\ Closed(p) /\ local_color[p] = "none"

\* p's color_select_screen is running before and after this step
InColorSelect(p) ==
    pc[p] \in {"cs_drain", "cs_events"} /\ pc'[p] \in {"cs_drain", "cs_events"}
\* the outcomes of a call of send() on a channel that has a socket
SendCalled == {"ok", "drop", "fail"}

\* C16: in color_select_screen a message is written to the peer only by the
\* first pick, and it is the ChooseColor of the side picked; the first pick
\* calls send once and sets sent; after that no step of the screen (a flip
\* on a polled announcement, a later pick) calls send or writes to the peer.
C16_AnnounceOnce ==
    [][\A p \in Peers : InColorSelect(p) =>
          /\ Len(wire'[Other(p)]) > Len(wire[Other(p)]) =>
                /\ ~sent[p] /\ local_choice[p] = "none"
                /\ wire'[Other(p)] = Append(wire[Other(p)], ChooseMsg(local_choice'[p]))
          /\ (local_choice[p] = "none" /\ local_choice'[p] # "none") =>
                (sent'[p] /\ last'[p].op = "cs_pick" /\ last'[p].out \in SendCalled)
          /\ sent[p] =>
                /\ sent'[p]
                /\ last'[p] # last[p] => last'[p].out \notin SendCalled]_vars
\* a peer that had announced and was flipped by a collision picked again:
\* nothing was sent
C16_Witness ==
    \E p \in Peers :
        /\ pc[p] = "cs_events" /\ last[p].op = "cs_pick" /\ last[p].out = "unsent"
        /\ sent[p] /\ flips[p] >= 1

\* the client of p's channel makes the call op in this step
Calls(p, op) == last'[p] # last[p] /\ last'[p].op = op
\* close() has been called on p's channel
WasClosed(p) == net[p] /\ ~alive[p]

\* C17: a call of close() on a channel that close() was called on before
\* changes nothing: the channel's fields, its inbox, the count of 'closed'
\* events and the wire are as they were.
C17_CloseIdempotent ==
    [][\A p \in Peers : (Calls(p, "close") /\ WasClosed(p)) =>
          UNCHANGED <<alive, sock, listener, q, nClosed, wire>>]_vars

\* C18: a call of send() on a channel that close() was called on writes
\* nothing to the peer and enqueues no event.
C18_SendAfterCloseNoop ==
    [][\A p \in Peers : (Calls(p, "send") /\ WasClosed(p)) =>
          UNCHANGED <<q, nClosed, wire>>]_vars

\* C19: send() returns to its caller in every case, leaving the channel's
\* fields alone: a failed write appends one 'closed' event to the inbox and
\* writes nothing; without a connection nothing happens at all; what the
\* caller has polled so far is unaffected.
C19_SendNeverRaises ==
    [][\A p \in Peers : Calls(p, "send") =>
          /\ last'[p].out \in SendOutcomes(p)
          /\ UNCHANGED <<alive, sock, listener, net>>
          /\ last'[p].out = "fail" =>
                (q'[p] = Append(q[p], EvClosed) /\ wire' = wire)
          /\ last'[p].out # "fail" => q'[p] = q[p]
          /\ sock[p] = "none" => (last'[p].out = "noop" /\ wire' = wire)]_vars
\* a write on a live channel failed (the peer was gone): the 'closed' event
\* is the newest of the inbox and the channel is still open on this side
C19_Witness ==
    \E p \in Peers :
        /\ last[p].op = "send" /\ last[p].out = "fail"
        /\ alive[p] /\ sock[p] = "open"
        /\ q[p] # <<>> /\ q[p][Len(q[p])].kind = "closed"

\* p's _recv thread takes records off the wire in this step
Reads(p) == recvT[p] = "running" /\ Len(wire'[p]) < Len(wire[p]) /\ pc'[p] # "quit"
\* the records taken off p's wire in this step
ReadRecs(p) == Take(wire[p], Len(wire[p]) - Len(wire'[p]))

\* C20: every read of the receive thread takes a prefix of the records on the
\* wire and appends to the inbox exactly those of them that decode, in
\* their order; a record that does not decode is passed over, and while the
\* channel is alive the read enqueues no 'closed', keeps the thread running
\* and leaves the socket open.
C20_DecodedInOrder ==
    [][\A p \in Peers : Reads(p) =>
          /\ wire[p] = ReadRecs(p) \o wire'[p]
          /\ q'[p] = q[p] \o SelectSeq(ReadRecs(p), LAMBDA r : r.kind = "msg")
                          \o (IF alive[p] THEN <<>> ELSE <<EvClosed>>)
          /\ alive[p] => (recvT'[p] = "running" /\ sock'[p] = sock[p]
                           /\ nClosed'[p] = nClosed[p])]_vars
\* one read carried a malformed record right before a valid one: the valid
\* one is in the inbox and the channel is still up
C20_Witness ==
    \E p \in Peers :
        /\ dropped[p] /\ alive[p] /\ recvT[p] = "running" /\ sock[p] = "open"
        /\ nClosed[p] = 0
        /\ q[p] # <<>> /\ q[p][Len(q[p])].kind = "msg"

\* evt decodes as an object but is no valid protocol message
NotProtocol(evt) ==
    /\ evt.kind = "msg"
    /\ \/ evt.type \notin {"move", "choose"}
       \/ evt.type = "choose" /\ evt.color \notin Colors
       \/ evt.type = "move" /\ (~Parses(evt.uci) \/ NotANumber \in {evt.wtime, evt.btime})
\* p's session (color_select_screen or the tick loop) polls an event in this step
SessionPolls(p) ==
    /\ pc[p] \in {"cs_drain", "drain"} /\ q[p] # <<>> /\ last'[p] # last[p]
    /\ pc[p] = "drain" => Polling(p)

\* C21: when a session polls an object that is no valid protocol message, its
\* negotiation state, board, clocks and game flags stay as they are, the loop
\* that polled keeps running and the channel stays open.
C21_InvalidMessageDropped ==
    [][\A p \in Peers : (SessionPolls(p) /\ NotProtocol(Head(q[p]))) =>
          /\ Game(p)' = Game(p)
          /\ UNCHANGED <<local_choice, remote_choice, sent, local_color>>
          /\ pc'[p] = pc[p] /\ net'[p]
          /\ UNCHANGED <<alive, sock, listener, nClosed>>]_vars

\* the number of events of the given kind in an inbox
Count(es, kind) == Len(SelectSeq(es, LAMBDA e : e.kind = kind))
\* p's session enters color_select_screen in this step
EntersCs(p) == pc[p] \notin {"cs_drain", "cs_events"} /\ pc'[p] = "cs_drain"

\* C22: a 'connected' event is enqueued only by a host channel's accept
\* thread when accept() has returned a connection, once (the thread ends
\* with it), as the newest event of an inbox that never held a message (the
\* read thread starts after it); the accept thread's last step always
\* enqueues it unless accept() failed. The joiner's session enters
\* color_select_screen in the step that connects; the host's session enters it
\* only from the waiting loop with the flag that only a polled 'connected' sets.
C22_ConnectedOnceHostOnly ==
    [][\A p \in Peers :
          /\ Count(q'[p], "connected") > Count(q[p], "connected") =>
                /\ mode[p] = "host" /\ acceptT[p] = "accepted" /\ acceptT'[p] = "done"
                /\ recvT[p] = "none" /\ Count(q[p], "msg") = 0
                /\ q'[p] = Append(q[p], EvConnected)
                /\ sock'[p] = "open"
          /\ (acceptT[p] = "accepted" /\ acceptT'[p] = "done") =>
                q'[p] = Append(q[p], EvConnected)
          /\ acceptT[p] = "done" => acceptT'[p] = "done"
          /\ Count(q'[p], "msg") > Count(q[p], "msg") =>
                (mode[p] = "host" => acceptT[p] = "done")
          /\ (EntersCs(p) /\ mode[p] = "join") =>
                (pc[p] = "start" /\ sock[p] = "none" /\ sock'[p] = "open")
          /\ (EntersCs(p) /\ mode[p] = "host") => (pc[p] = "wait_ev" /\ connected[p])
          /\ (~connected[p] /\ connected'[p]) =>
                (pc[p] = "waiting" /\ q[p] # <<>> /\ q'[p] = Tail(q[p])
                 /\ Count(q[p], "connected") = Count(q'[p], "connected") + 1)]_vars
\* the host is in color_select_screen after polling 'connected', has polled
\* the joiner's announcement after it, and its accept thread has ended
C22_Witness ==
    /\ pc["host"] \in {"cs_drain", "cs_events"} /\ connected["host"]
    /\ acceptT["host"] = "done" /\ remote_choice["host"] # "none"
    /\ Count(q["host"], "connected") = 0
    /\ pc["join"] \in {"cs_drain", "cs_events"}

\* main_game stops running in this step: it returns, or the process ends
Leaves(p) ==
    /\ pc[p] \in {"waiting", "wait_ev", "cs_drain", "cs_events", "drain", "events"}
    /\ pc'[p] \in {"ret", "quit", "crash"}
\* p's session has opened a channel (and may have dropped it on PeerLeft)
Opened(p) == net[p] \/ peer_left[p]

\* C23: a session that opened a channel has called close() on it exactly
\* once when main_game stops running, and the channel is closed then; close()
\* is called in the step that makes the session PeerLeft or in the step that
\* leaves main_game, never twice; and after the call the session takes
\* nothing from the inbox and writes nothing to the peer.
C23_ClosedExactlyOnce ==
    [][\A p \in Peers :
          /\ (Leaves(p) /\ Opened(p)) => (closes'[p] = 1 /\ Closed(p)')
          /\ closes'[p] <= 1
          /\ closes'[p] > closes[p] => (Leaves(p) \/ (~peer_left[p] /\ peer_left'[p]))
          /\ (closes[p] > 0 /\ pc'[p] \notin {"quit", "crash"}) =>
                (Len(q'[p]) >= Len(q[p]) /\ Len(wire'[Other(p)]) <= Len(wire[Other(p)]))]_vars

\* the constructor of p's channel raises in this step
OpenFails(p) == pc[p] = "start" /\ mode[p] \in {"host", "join"} /\ pc'[p] # "start" /\ ~net'[p]

\* C24: when opening the channel fails, main_game returns "exit" in that
\* step: no channel, no socket, no accept or read thread, nothing enqueued;
\* a main_game that has returned stays returned (no retry, no color selection,
\* no tick loop); and a read thread is only ever started on a connected socket.
C24_OpenFailureAborts ==
    [][\A p \in Peers :
          /\ OpenFails(p) =>
                /\ pc'[p] = "ret" /\ last'[p].op = "leave" /\ last'[p].out = "exit"
                /\ ~alive'[p] /\ sock'[p] = "none" /\ listener'[p] = "none"
                /\ acceptT'[p] = "none" /\ recvT'[p] = "none"
                /\ q'[p] = q[p] /\ wire' = wire
                /\ local_color'[p] = "none"
          /\ pc[p] = "ret" => pc'[p] = "ret"
          /\ (recvT[p] # "running" /\ recvT'[p] = "running") => sock'[p] = "open"]_vars
\* the joiner's connect failed although the host was listening (a timeout):
\* the joiner has returned, the host still waits
C24_Witness ==
    /\ pc["join"] = "ret" /\ last["join"].op = "leave" /\ last["join"].out = "exit"
    /\ recvT["join"] = "none" /\ sock["join"] = "none" /\ ~net["join"]
    /\ pc["host"] = "waiting" /\ listener["host"] = "listening"

\* C25: in a solo session, at every point of the tick loop, each side's
\* remaining time plus the tick time that passed while the board had that
\* side to move and the game was running equals the initial clock value.
C25_SoloClockConservation ==
    \A p \in Peers : (mode[p] = "solo" /\ pc[p] \in {"drain", "events"}) =>
        /\ white_time[p] + charged[p].white = InitTime
        /\ black_time[p] + charged[p].black = InitTime
\* a solo game in which a move was made and both sides have been charged
\* time, still running
C25_Witness ==
    \E p \in Peers :
        /\ mode[p] = "solo" /\ InPlaying(p)
        /\ charged[p].white > 0 /\ charged[p].black > 0
        /\ last_move[p] # NoMove

\* p's session takes a move message off its inbox in this step
TakesMove(p) ==
    /\ q[p] # <<>> /\ q'[p] = Tail(q[p]) /\ pc'[p] \notin {"quit", "crash"}
    /\ Head(q[p]).kind = "msg" /\ Head(q[p]).type = "move"

\* C26: a move message is taken off an inbox only by the network receive
\* loop of the tick loop, which applies it or rejects it as illegal; in
\* particular color_select_screen never polls one.
C26_NoMoveLost ==
    [][\A p \in Peers : TakesMove(p) =>
          /\ pc[p] = "drain" /\ last'[p].op = "poll"
          /\ \/ Game(p)' = ApplyRemote(Game(p), Head(q[p]))
             \/ rejected' /\ Game(p)' = Game(p)]_vars

Returns(p) == pc[p] = "cs_events" /\ pc'[p] = "drain"

\* C28: color_select_screen returns a side only with a local pick and a peer
\* announcement recorded; whenever both are recorded in the screen they differ,
\* so the equality check before the return finds them different, flips
\* nothing, and the side returned is the local choice and is not the side the
\* peer announced.
C28_FinalCheckNeverFlips ==
    [][\A p \in Peers :
          /\ (pc[p] \in {"cs_drain", "cs_events"} /\ CsComplete(p)) =>
                local_choice[p] # remote_choice[p]
          /\ Returns(p) =>
                /\ local_choice[p] # "none" /\ remote_choice[p] # "none"
                /\ local_choice[p] # remote_choice[p]
                /\ local_color'[p] = local_choice[p]
                /\ local_color'[p] # remote_choice'[p]
                /\ flips'[p] = flips[p]]_vars
\* a screen returned after a collision on a polled announcement had flipped
\* its choice: it holds the side the peer did not announce
C28_Witness ==
    \E p \in Peers :
        /\ last[p].op = "cs_end" /\ pc[p] = "drain"
        /\ flips[p] = 1 /\ blind[p]
        /\ local_color[p] = Flip(remote_choice[p])

\* the move messages sent to p and not yet polled by it
InFlight(p) == SelectSeq(wire[p] \o q[p], LAMBDA r : r.kind = "msg" /\ r.type = "move")
\* both sessions hold a side and the sides differ
DistinctSides == BothAssigned /\ local_color["host"] # local_color["join"]

\* C29: while both sessions hold a side and the sides differ, at most one
\* move message, counting both directions, is sent and not yet polled; and a
\* move message polled by the tick loop is a move of the side to move on the
\* polling peer's board, which is the sender's side.
C29_OneMoveInFlight ==
    [][DistinctSides =>
          /\ Len(InFlight("host")) + Len(InFlight("join")) <= 1
          /\ \A p \in Peers : (pc[p] = "drain" /\ TakesMove(p)) =>
                /\ FromUci(Head(q[p]).uci).side = board[p].turn
                /\ FromUci(Head(q[p]).uci).side = local_color[Other(p)]]_vars
\* Black's reply is in the inbox of the peer playing White, whose tick loop
\* is about to poll it; nothing else is in flight
C29_Witness ==
    /\ DistinctSides
    /\ \E p \in Peers :
          /\ pc[p] = "drain" /\ local_color[p] = "white" /\ board[p].turn = "black"
          /\ Len(InFlight(p)) = 1 /\ Len(InFlight(Other(p))) = 0
          /\ q[p] # <<>> /\ q[p][1].type = "move" /\ FromUci(q[p][1].uci).side = "black"

\* C30: in every state of the tick loop the white_to_move flag says what the
\* board says: it is true exactly when White is the side to move.
C30_FlagMatchesBoard ==
    \A p \in Peers : pc[p] \in {"drain", "events"} =>
        (white_to_move[p] <=> board[p].turn = "white")
\* a networked session that made a local move (flag negated) has then
\* applied a received move (flag read from the board): White is to move again
C30_Witness ==
    \E p \in Peers :
        /\ mode[p] # "solo" /\ PolledLegal(p)
        /\ last[p].pre.last_move # NoMove
        /\ last[p].pre.last_move.side = local_color[p]
        /\ ~last[p].pre.white_to_move
        /\ white_to_move[p] /\ board[p].turn = "white"

\* p's host session is in the waiting loop
Connecting(p) == pc[p] \in {"waiting", "wait_ev"}
\* the waiting loop of p polls an event that is not 'connected' in this step
WaitPollsOther(p) ==
    /\ pc[p] = "waiting" /\ pc'[p] = "wait_ev"
    /\ q[p] # <<>> /\ Head(q[p]).kind # "connected"

\* C31: a host session in the waiting loop leaves it for color selection
\* only with the flag that polling 'connected' sets, and otherwise only by
\* Cancel (main_game returns) or quit; polling any other event, the 'closed'
\* of a failed accept included, takes the event off the inbox and changes
\* nothing else: the flag stays unset, the channel stays open, and the frame
\* ends back in the waiting loop.
C31_WaitsForConnected ==
    [][\A p \in Peers : Connecting(p) =>
          /\ pc'[p] \in {"waiting", "wait_ev", "cs_drain", "ret", "quit"}
          /\ pc'[p] = "cs_drain" => connected[p]
          /\ (~connected[p] /\ connected'[p]) =>
                (pc[p] = "waiting" /\ q[p] # <<>> /\ Head(q[p]).kind = "connected")
          /\ pc'[p] \in {"ret", "quit"} => (pc[p] = "wait_ev" /\ last'[p].op = "leave")
          /\ WaitPollsOther(p) =>
                /\ q'[p] = Tail(q[p]) /\ ~connected'[p]
                /\ net'[p] /\ UNCHANGED <<alive, sock, listener, closes, nClosed>>
          /\ (pc[p] = "wait_ev" /\ ~connected[p] /\ pc'[p] \notin {"wait_ev", "ret", "quit"}) =>
                pc'[p] = "waiting"]_vars
\* the host polled the 'closed' of a failed accept in an earlier frame and is
\* waiting still, its channel open
C31_Witness ==
    \E p \in Peers :
        /\ pc[p] = "waiting" /\ last[p].op = "wait_end"
        /\ nClosed[p] = 1 /\ q[p] = <<>> /\ acceptT[p] = "done"
        /\ ~connected[p] /\ net[p] /\ alive[p] /\ listener[p] = "listening"

====
